---- MODULE Spec2Model ----
(***************************************************************************)
(* dipp: a dependency injection container.  The model covers the service   *)
(* collection (registration), the provider with its singleton store, the   *)
(* service scopes with their local stores, the instance store policy       *)
(* (find / emplace / reverse teardown) and the descriptors' load path      *)
(* (dependencies pulled from the scope, then the descriptor's own          *)
(* constructor arguments).                                                 *)
(*                                                                         *)
(* One call of the library is one action: the library is synchronous and   *)
(* a get runs its whole recursive resolution on the calling thread.        *)
(***************************************************************************)
EXTENDS Integers, Sequences, FiniteSets, TLC

\* ------------------------------------------------------------------ bounds

\* registrations (add / emplace calls) made before the provider is built
MaxRegs == 3
\* scope objects constructed besides the provider's root scope
MaxScopes == 2
\* instances constructed over the provider's life
MaxInst == 4
MaxSame == 2

\* ------------------------------------------------------------ declarations

\* the null instance pointer returned by find for an absent key
nullptr == 0

\* the value a moved-from constructor argument is left with
MovedFrom == 0

\* values passed as a descriptor's own constructor arguments
CtorArgs == {1, 2}

\* how the arguments reached the in_place constructor: an lvalue that lives
\* on, an xvalue (std::move of a live object), or a temporary
ArgPass == {"lvalue", "xvalue", "temporary"}

\* a read through a dangling reference: the old value is still there, or the
\* memory has been reused
Dangling == {"intact", "clobbered"}

\* what reused memory reads as
Clobbered == 0

\* The service declarations (dipp::injected<...>) the program is built from.
\* A declaration fixes the value type, the lifetime, the dependency list and
\* the key; all but the key make up its descriptor type. The last two are
\* declared like the README's EngineService, over the Engine: a scoped
\* Camera and a singleton Renderer.
Decl ==
    [ WindowService1 |-> [vtype |-> "Window", lifetime |-> "singleton",
                          deps |-> << >>, key |-> 0, nargs |-> 0,
                          pass |-> {"lvalue"}],
      WindowService2 |-> [vtype |-> "Window", lifetime |-> "singleton",
                          deps |-> << >>, key |-> 1, nargs |-> 0,
                          pass |-> {"lvalue"}],
      actual_descriptor |->
                         [vtype |-> "Class", lifetime |-> "singleton",
                          deps |-> << >>, key |-> 0, nargs |-> 0,
                          pass |-> {"lvalue"}],
      EngineService  |-> [vtype |-> "Engine", lifetime |-> "scoped",
                          deps |-> <<"WindowService1", "WindowService2">>,
                          key |-> 0, nargs |-> 1,
                          pass |-> {"lvalue", "xvalue"}],
      TaskService    |-> [vtype |-> "Task", lifetime |-> "transient",
                          deps |-> <<"EngineService", "WindowService1">>,
                          key |-> 0, nargs |-> 0,
                          pass |-> {"lvalue"}],
      service        |-> [vtype |-> "Class", lifetime |-> "transient",
                          deps |-> << >>, key |-> 0, nargs |-> 2,
                          pass |-> {"lvalue", "temporary"}],
      CameraService  |-> [vtype |-> "Camera", lifetime |-> "scoped",
                          deps |-> <<"EngineService">>,
                          key |-> 0, nargs |-> 0,
                          pass |-> {"lvalue"}],
      RendererService |-> [vtype |-> "Renderer", lifetime |-> "singleton",
                          deps |-> <<"EngineService">>,
                          key |-> 0, nargs |-> 0,
                          pass |-> {"lvalue"}] ]

Declared == DOMAIN Decl

\* the services of the README and of the tests
Injectables ==
    {"WindowService1", "WindowService2", "actual_descriptor", "EngineService",
     "TaskService", "service"}

\* type_key_pair: the value type's identity and the key
make_type_key(vtype, key) == <<vtype, key>>

Handle(inj) == make_type_key(Decl[inj].vtype, Decl[inj].key)

Handles == {Handle(i) : i \in Declared}

\* InjectableTy::descriptor_type: local_service_descriptor<Ty, Lifetime,
\* ScopeTy, DepsTy>; the key is no part of it
DescType(inj) ==
    [vtype |-> Decl[inj].vtype, lifetime |-> Decl[inj].lifetime,
     deps |-> Decl[inj].deps]

\* the argument tuples a descriptor of inj can be constructed from
ArgTuples(inj) ==
    CASE Decl[inj].nargs = 0 -> {<< >>}
      [] Decl[inj].nargs = 1 -> {<<x>> : x \in CtorArgs}
      [] OTHER -> {t \in CtorArgs \X CtorArgs : t[1] < t[2]}

PassModes(inj) == Decl[inj].pass \cap ArgPass

\* faulty variant: every lifetime is handed out as a reference into a store
service_type_always_reference(lifetime) == "reference"

\* base_service_descriptor::service_type: singleton and scoped services are
\* handed out as a reference into a store, transient ones by value
service_type(lifetime) ==
    IF lifetime = "singleton" \/ lifetime = "scoped" THEN "reference" ELSE "value"

ScopeIds == 0 .. MaxScopes
RootScope == 0

Reverse(s) == [i \in 1 .. Len(s) |-> s[Len(s) + 1 - i]]
Range(s) == {s[i] : i \in 1 .. Len(s)}
Last(s) == s[Len(s)]

\* -------------------------------------------------------------------- state

VARIABLES
    phase,        \* "collect": registering; "serve": provider built; "gone"
    m_Services,   \* the registry: handle -> descriptors in registration order
    m_SingletonStorage, \* the provider's singleton store
    scopes,       \* scope id -> [state, origin, m_LocalStorage]
    built,        \* every instance constructed so far, by instance id
    moved,        \* descriptor slots whose xvalue arguments were moved from
    destroyed,    \* the destructor runs so far, in order: [inst, store]
    last,         \* the most recent registration call and what it returned
    inflight      \* the get each thread is in the middle of, step by step

vars == <<phase, m_Services, m_SingletonStorage, scopes, built, moved,
          destroyed, last, inflight>>

\* default_service_storage_memory_type(): both containers empty
EmptyStore == [m_Instances |-> << >>, m_InstanceRefs |-> [h \in Handles |-> nullptr]]

\* ------------------------------------------------------------ instance store

\* faulty variant: the lookup never finds an entry
FindNothing(store, handle) == nullptr

\* faulty variant: the lookup compares the type identity only, not the key
FindAnyKey(store, handle) ==
    LET same == {h \in Handles : h[1] = handle[1] /\ store.m_InstanceRefs[h] # nullptr}
    IN  IF same = {} THEN nullptr
        ELSE store.m_InstanceRefs[CHOOSE h \in same : TRUE]

\* default_service_storage_memory_type::find
Find(store, handle) == store.m_InstanceRefs[handle]

\* faulty variant: the instance is owned but no lookup alias is registered
StoreEmplaceNoAlias(store, handle, inst) ==
    [m_Instances |-> Append(store.m_Instances, inst),
     m_InstanceRefs |-> store.m_InstanceRefs]

\* faulty variant: the alias is pointed at the newest instance of the key
StoreEmplaceLatest(store, handle, inst) ==
    [m_Instances |-> Append(store.m_Instances, inst),
     m_InstanceRefs |-> [store.m_InstanceRefs EXCEPT ![handle] = inst]]

\* the tail of default_service_storage_memory_type::emplace, once the
\* instance_info has been built: emplace_back into the owning vector, then
\* std::map::emplace (which keeps an existing entry) and return it->second
StoreEmplace(store, handle, inst) ==
    [m_Instances |-> Append(store.m_Instances, inst),
     m_InstanceRefs |->
        IF store.m_InstanceRefs[handle] = nullptr
        THEN [store.m_InstanceRefs EXCEPT ![handle] = inst]
        ELSE store.m_InstanceRefs]

\* faulty variant: the destructor walks the vector front to back
StoreTeardownForward(store) == store.m_Instances

\* ~default_service_storage_memory_type: reset every instance, last first
StoreTeardown(store) == Reverse(store.m_Instances)

\* ---------------------------------------------------------------- registry

\* a descriptor built with std::in_place: its type (the declaration), the
\* argument values and how they were passed (the functor captures a tuple of
\* references to them, std::forward_as_tuple)
Descriptor(inj, args, pass) ==
    [dtype |-> DescType(inj), args |-> args, pass |-> pass]

\* service_storage::add_service: append under the descriptor's handle
add_service(services, descriptor, key) ==
    LET handle == make_type_key(descriptor.dtype.vtype, key)
    IN  [services EXCEPT ![handle] = Append(@, descriptor)]

\* service_storage::emplace_service: insert only when the handle is free;
\* yields the registry and whether it inserted
emplace_service(services, descriptor, key) ==
    LET handle == make_type_key(descriptor.dtype.vtype, key)
    IN  IF services[handle] = << >>
        THEN [services |-> [services EXCEPT ![handle] = <<descriptor>>],
              inserted |-> TRUE]
        ELSE [services |-> services, inserted |-> FALSE]

\* faulty variant: any registration under the handle passes for the requested type
DescriptorMatchesAny(d, inj) == TRUE

\* the registration's descriptor is of the requested descriptor type
DescriptorMatches(d, inj) == d.dtype = DescType(inj)

\* service_storage::has_service<DescTy>(key)
has_service(services, inj, key) ==
    LET handle == make_type_key(Decl[inj].vtype, key)
    IN  \E i \in 1 .. Len(services[handle]) :
            DescriptorMatches(services[handle][i], inj)

\* service_collection::add(DescTy&& descriptor, size_t key)
CollectionAdd(services, descriptor, key) == add_service(services, descriptor, key)

\* faulty variant: emplace registers like add and reports an insertion
CollectionEmplaceAlways(services, descriptor, key) ==
    [services |-> add_service(services, descriptor, key), inserted |-> TRUE]

\* service_collection::emplace(DescTy&& descriptor, size_t key)
CollectionEmplace(services, descriptor, key) ==
    emplace_service(services, descriptor, key)

\* service_collection::has<InjectableTy>()
CollectionHas(services, inj) == has_service(services, inj, Decl[inj].key)

\* -------------------------------------------------------------- resolution
\* The state a resolution threads through its recursive calls:
\*   stores  the two stores the scope hands to get_service, by name
\*   sp      the store the scope's m_SingletonStorage points to
\*   built, moved  as the variables
\*   g       how a read through a dangling argument reference turns out

RECURSIVE get_service(_, _)
RECURSIVE for_each(_, _, _)
RECURSIVE load_service(_, _, _, _)
RECURSIVE emplace(_, _, _, _, _)
RECURSIVE load(_, _, _)
RECURSIVE get_tuple_from_scope(_, _, _)

\* F applied to the value of v, which is worked out once
With(v, F(_)) == CHOOSE out \in {F(x) : x \in {v}} : TRUE

Failed(st) == [ok |-> FALSE, inst |-> nullptr, st |-> st]

\* the descriptor's own arguments as the functor reads them at load: the
\* captured tuple holds references, and std::move(args) moves from them
ReadArgs(d, slot, st) ==
    [j \in 1 .. Len(d.args) |->
        [kind |-> "arg", pos |-> j,
         v |-> CASE d.pass = "lvalue" -> d.args[j]
                 [] d.pass = "xvalue" ->
                        IF slot \in st.moved THEN MovedFrom ELSE d.args[j]
                 [] OTHER -> IF st.g = "intact" THEN d.args[j] ELSE Clobbered]]

\* faulty variant: the descriptor's own arguments are put first
GetCombinedArgsFirst(fromScope, args) ==
    IF Len(fromScope) = 0 THEN args ELSE args \o fromScope

\* base_service_descriptor::GetCombinedArgs: the tuple from the scope, then
\* the descriptor's own arguments
GetCombinedArgs(fromScope, args) ==
    IF Len(fromScope) = 0 THEN args ELSE fromScope \o args

\* get_tuple_from_scope: one scope.get per declared dependency, left to
\* right from position k; the first failure ends it
get_tuple_from_scope(st, deps, k) ==
    IF k > Len(deps)
    THEN [ok |-> TRUE, st |-> st, vals |-> << >>]
    ELSE With(get_service(st, deps[k]), LAMBDA r :
             IF ~r.ok
             THEN [ok |-> FALSE, st |-> r.st, vals |-> << >>]
             ELSE With(get_tuple_from_scope(r.st, deps, k + 1), LAMBDA rest :
                      IF ~rest.ok
                      THEN rest
                      ELSE [ok |-> TRUE, st |-> rest.st,
                            vals |-> <<[kind |-> "dep", pos |-> k, v |-> r.inst]>>
                                        \o rest.vals]))

\* faulty variant: the constructor runs before the dependencies are resolved
load_before_deps(st, d, slot) ==
    With(get_tuple_from_scope(
             [st EXCEPT !.built = Append(@, [desc |-> d, slot |-> slot,
                                             params |-> << >>])],
             d.dtype.deps, 1),
         LAMBDA tup :
        IF ~tup.ok
        THEN Failed(tup.st)
        ELSE [ok |-> TRUE, inst |-> Len(st.built) + 1,
              st |-> [tup.st EXCEPT
                        !.built[Len(st.built) + 1].params =
                            GetCombinedArgs(tup.vals, ReadArgs(d, slot, tup.st)),
                        !.moved = IF d.pass = "xvalue" /\ Len(d.args) > 0
                                  THEN @ \cup {slot} ELSE @]])

\* functor_service_descriptor::load -> the in_place functor -> ApplyFactory:
\* resolve the dependencies, combine, construct
load(st, d, slot) ==
    With(get_tuple_from_scope(st, d.dtype.deps, 1), LAMBDA tup :
        IF ~tup.ok
        THEN Failed(tup.st)
        ELSE LET params == GetCombinedArgs(tup.vals, ReadArgs(d, slot, tup.st))
                 id == Len(tup.st.built) + 1
             IN  [ok |-> TRUE, inst |-> id,
                  st |-> [tup.st EXCEPT
                            !.built = Append(@, [desc |-> d, slot |-> slot,
                                                 params |-> params]),
                            !.moved = IF d.pass = "xvalue" /\ Len(d.args) > 0
                                      THEN @ \cup {slot} ELSE @]])

\* faulty variant: the slot is appended and aliased before the instance is loaded,
\* and stays when the load throws
emplace_before_load(st, which, handle, d, slot) ==
    With(load(st, d, slot), LAMBDA ld :
        LET inst == IF ld.ok THEN ld.inst ELSE Len(ld.st.built) + 1
            store == StoreEmplace(ld.st.stores[which], handle, inst)
        IN  [ok |-> ld.ok, inst |-> IF ld.ok THEN Find(store, handle) ELSE nullptr,
             st |-> [ld.st EXCEPT !.stores[which] = store]])

\* default_service_storage_memory_type::emplace on the store named `which`:
\* make_unique<instance_info>(descriptor, scope) loads the instance; when
\* that throws nothing has been appended
emplace(st, which, handle, d, slot) ==
    With(load(st, d, slot), LAMBDA ld :
        IF ~ld.ok
        THEN ld
        ELSE LET store == StoreEmplace(ld.st.stores[which], handle, ld.inst)
             IN  [ok |-> TRUE, inst |-> Find(store, handle),
                  st |-> [ld.st EXCEPT !.stores[which] = store]])

\* the store a lifetime is cached in
StoreFor(st, lifetime) == IF lifetime = "singleton" THEN st.sp ELSE "local"

\* the lifetime rule applied to one registration d (at `slot`) of the
\* requested injectable: a transient is loaded, a singleton or scoped
\* service is looked up in its store and emplaced there when absent
load_service(st, inj, d, slot) ==
    LET handle == Handle(inj)
    IN  IF ~DescriptorMatches(d, inj)
        THEN Failed(st)
        ELSE IF service_type(Decl[inj].lifetime) = "value"
        THEN load(st, d, slot)
        ELSE LET which == StoreFor(st, Decl[inj].lifetime)
                 found == Find(st.stores[which], handle)
             IN  IF found # nullptr
                 THEN [ok |-> TRUE, inst |-> found, st |-> st]
                 ELSE emplace(st, which, handle, d, slot)

\* service_storage::get_service
get_service(st, inj) ==
    LET handle == Handle(inj)
        regs == m_Services[handle]
    IN  IF regs = << >>
        THEN Failed(st)
        ELSE load_service(st, inj, Last(regs), <<handle, Len(regs)>>)

\* service_storage::for_each from registration i on: every registration of
\* the requested descriptor type under the identity is resolved by the
\* lifetime rule and visited, in registration order; a failure ends it
for_each(st, inj, i) ==
    LET handle == Handle(inj)
        regs == m_Services[handle]
    IN  IF i > Len(regs)
        THEN [ok |-> TRUE, visits |-> << >>, st |-> st]
        ELSE IF ~DescriptorMatches(regs[i], inj)
        THEN for_each(st, inj, i + 1)
        ELSE With(load_service(st, inj, regs[i], <<handle, i>>), LAMBDA r :
                 IF ~r.ok
                 THEN [ok |-> FALSE, visits |-> << >>, st |-> r.st]
                 ELSE With(for_each(r.st, inj, i + 1), LAMBDA rest :
                          [ok |-> rest.ok,
                           visits |-> <<[reg |-> i, inst |-> r.inst]>> \o rest.visits,
                           st |-> rest.st]))

\* -------------------------------------------------------------------- scope

\* the store the provider owns, as the target of a scope's pointer
ProviderStore == "provider"

\* faulty variant: the scope keeps its singletons in its own local store
ScopeCtorOwnSingletons(singleton_storage, origin) ==
    [state |-> "live", origin |-> origin,
     m_SingletonStorage |-> "local",
     m_LocalStorage |-> EmptyStore]

\* service_scope(storage, singleton_storage): a fresh, empty local store
ScopeCtor(singleton_storage, origin) ==
    [state |-> "live", origin |-> origin,
     m_SingletonStorage |-> singleton_storage,
     m_LocalStorage |-> EmptyStore]

\* faulty variant: the new scope starts with a local store of its own and
\* the other scope's is dropped
ScopeMoveCtorFresh(singleton_storage, scope) ==
    [state |-> "live", origin |-> "upgrade",
     m_SingletonStorage |-> singleton_storage,
     m_LocalStorage |-> EmptyStore]

\* service_scope(storage, singleton_storage, service_scope&& scope): the
\* local store is move-constructed from the other scope's
ScopeMoveCtor(singleton_storage, scope) ==
    [state |-> "live", origin |-> "upgrade",
     m_SingletonStorage |-> singleton_storage,
     m_LocalStorage |-> scope.m_LocalStorage]

\* what the move leaves behind: a scope whose local store is empty
MovedFromScope(scope) ==
    [scope EXCEPT !.state = "moved", !.m_LocalStorage = EmptyStore]

NoScope ==
    [state |-> "unused", origin |-> "none",
     m_SingletonStorage |-> ProviderStore, m_LocalStorage |-> EmptyStore]

\* faulty variant: the scope hands its local store as the singleton store
ScopeGetLocalSingletons(scope, inj, g) ==
    get_service([stores |-> [provider |-> m_SingletonStorage,
                             local |-> scope.m_LocalStorage],
                 sp |-> "local",
                 built |-> built, moved |-> moved, g |-> g],
                inj)

\* service_scope::get: get_service(*this, *m_SingletonStorage, m_LocalStorage)
ScopeGet(scope, inj, g) ==
    get_service([stores |-> [provider |-> m_SingletonStorage,
                             local |-> scope.m_LocalStorage],
                 sp |-> scope.m_SingletonStorage,
                 built |-> built, moved |-> moved, g |-> g],
                inj)

\* m_SingletonStorage->emplace(handle, descriptor, scope) or
\* m_LocalStorage.emplace(handle, descriptor, scope) called with the last
\* registration of the injectable, without a find before it
ScopeEmplace(scope, inj) ==
    LET st == [stores |-> [provider |-> m_SingletonStorage,
                           local |-> scope.m_LocalStorage],
               sp |-> scope.m_SingletonStorage,
               built |-> built, moved |-> moved, g |-> "intact"]
        regs == m_Services[Handle(inj)]
    IN  emplace(st, StoreFor(st, Decl[inj].lifetime), Handle(inj),
                Last(regs), <<Handle(inj), Len(regs)>>)

\* faulty variant: for_each hands the local store as the singleton store
ScopeForEachLocalSingletons(scope, inj) ==
    for_each([stores |-> [provider |-> m_SingletonStorage,
                          local |-> scope.m_LocalStorage],
              sp |-> "local",
              built |-> built, moved |-> moved, g |-> "intact"],
             inj, 1)

\* service_scope::for_each: for_each(func, *this, *m_SingletonStorage,
\* m_LocalStorage, InjectableTy::key)
ScopeForEach(scope, inj) ==
    for_each([stores |-> [provider |-> m_SingletonStorage,
                          local |-> scope.m_LocalStorage],
              sp |-> scope.m_SingletonStorage,
              built |-> built, moved |-> moved, g |-> "intact"],
             inj, 1)

\* faulty variant: has asks for the unkeyed registration whatever the key
ScopeHasUnkeyed(inj) == has_service(m_Services, inj, 0)

\* service_scope::has
ScopeHas(inj) == has_service(m_Services, inj, Decl[inj].key)

\* ----------------------------------------------------------------- actions

\* the threads of the program that call get without a lock
Threads == {1, 2}

\* a thread that is in no call
Idle == [pc |-> "idle", scope |-> RootScope, inj |-> "WindowService1",
         inst |-> nullptr]

NoDesc == Descriptor("service", << >>, "lvalue")

Call(op, ok, desc, handle) ==
    [op |-> op, ok |-> ok, desc |-> desc, handle |-> handle]

RECURSIVE SumLen(_, _)
SumLen(f, S) ==
    IF S = {} THEN 0
    ELSE LET h == CHOOSE x \in S : TRUE IN Len(f[h]) + SumLen(f, S \ {h})

RegCount == SumLen(m_Services, Handles)

\* service_storage::count<DescTy>(key): the registrations under the identity
count(services, inj, key) ==
    Len(services[make_type_key(Decl[inj].vtype, key)])

\* service_storage::count_all<DescTy>(): the registrations under every key
\* of the value type
count_all(services, inj) ==
    SumLen(services, {h \in Handles : h[1] = Decl[inj].vtype})

\* faulty variant: count looks under the default key
ScopeCountUnkeyed(inj) == count(m_Services, inj, 0)

\* service_scope::count
ScopeCount(inj) == count(m_Services, inj, Decl[inj].key)

\* service_scope::count_all
ScopeCountAll(inj) == count_all(m_Services, inj)

NextScopeId == CHOOSE s \in ScopeIds :
                  /\ scopes[s].state = "unused"
                  /\ \A t \in ScopeIds : scopes[t].state = "unused" => s <= t

Init ==
    /\ phase = "collect"
    /\ m_Services = [h \in Handles |-> << >>]
    /\ m_SingletonStorage = EmptyStore
    /\ scopes = [s \in ScopeIds |-> NoScope]
    /\ built = << >>
    /\ moved = {}
    /\ destroyed = << >>
    /\ last = Call("none", FALSE, NoDesc, Handle("service"))
    /\ inflight = [calls |-> [t \in Threads |-> Idle], raced |-> {}]

\* collection.add<InjectableTy>(descriptor_type(std::in_place, args...))
Add(inj, args, pass) ==
    /\ phase = "collect"
    /\ RegCount < MaxRegs
    /\ LET d == Descriptor(inj, args, pass)
       IN  /\ m_Services' = CollectionAdd(m_Services, d, Decl[inj].key)
           /\ last' = Call("add", TRUE, d, Handle(inj))
    /\ UNCHANGED <<inflight, phase, m_SingletonStorage, scopes, built, moved, destroyed>>

\* the services of the application's dependency graph: the Task needs the
\* Engine and a Window, the Engine needs both Windows
GraphServices == {"WindowService1", "WindowService2", "EngineService", "TaskService"}

\* collection.add<InjectableTy>(...) of a program that registers the
\* services of its graph, one of them possibly more than once
Register(inj, args) ==
    /\ phase = "collect"
    /\ Len(m_Services[Handle(inj)]) < MaxSame
    /\ RegCount <= Cardinality(GraphServices)
    /\ LET d == Descriptor(inj, args, "lvalue")
       IN  /\ m_Services' = CollectionAdd(m_Services, d, Decl[inj].key)
           /\ last' = Call("add", TRUE, d, Handle(inj))
    /\ UNCHANGED <<inflight, phase, m_SingletonStorage, scopes, built, moved, destroyed>>

\* collection.emplace<InjectableTy>(descriptor_type(std::in_place, args...))
Emplace(inj, args, pass) ==
    /\ phase = "collect"
    /\ RegCount < MaxRegs
    /\ LET d == Descriptor(inj, args, pass)
           r == CollectionEmplace(m_Services, d, Decl[inj].key)
       IN  /\ m_Services' = r.services
           /\ last' = Call("emplace", r.inserted, d, Handle(inj))
    /\ UNCHANGED <<inflight, phase, m_SingletonStorage, scopes, built, moved, destroyed>>

\* default_service_provider services(std::move(collection))
BuildProvider ==
    /\ phase = "collect"
    /\ phase' = "serve"
    /\ scopes' = [scopes EXCEPT ![RootScope] = ScopeCtor(ProviderStore, "root")]
    /\ last' = Call("build", TRUE, NoDesc, Handle("service"))
    /\ UNCHANGED <<inflight, m_Services, m_SingletonStorage, built, moved, destroyed>>

\* services.create_scope()
CreateScope ==
    /\ phase = "serve"
    /\ \E s \in ScopeIds : scopes[s].state = "unused"
    /\ scopes' = [scopes EXCEPT ![NextScopeId] = ScopeCtor(ProviderStore, "created")]
    /\ UNCHANGED <<inflight, phase, m_Services, m_SingletonStorage, built, moved, destroyed, last>>

\* service_scope upgraded(storage, singleton_storage, std::move(scope))
UpgradeScope(s) ==
    /\ phase = "serve"
    /\ scopes[s].state = "live"
    /\ s # RootScope
    /\ \E t \in ScopeIds : scopes[t].state = "unused"
    /\ scopes' = [scopes EXCEPT
                    ![NextScopeId] = ScopeMoveCtor(ProviderStore, scopes[s]),
                    ![s] = MovedFromScope(scopes[s])]
    /\ UNCHANGED <<inflight, phase, m_Services, m_SingletonStorage, built, moved, destroyed, last>>

\* scope.get<InjectableTy>() (services.get<...>() is the root scope's)
Get(s, inj, g) ==
    /\ phase = "serve"
    /\ scopes[s].state = "live"
    /\ LET r == ScopeGet(scopes[s], inj, g)
       IN  /\ Len(r.st.built) <= MaxInst
           /\ m_SingletonStorage' = r.st.stores.provider
           /\ scopes' = [scopes EXCEPT ![s].m_LocalStorage = r.st.stores.local]
           /\ built' = r.st.built
           /\ moved' = r.st.moved
    /\ UNCHANGED <<inflight, phase, m_Services, destroyed, last>>

\* what an unsynchronized access to the singleton store can come to when
\* another thread is inside the store's code: as if the accesses had
\* happened one after the other, or anything at all
RaceOutcome == {"sequential", "undefined"}

\* the singletons without dependencies, which threads resolve step by step
RaceServices == {"WindowService1", "WindowService2"}

\* the threads other than t that are inside a get
Others(t) == {u \in Threads \ {t} : inflight.calls[u].pc \in {"load", "emplace"}}

\* the identities whose first resolutions overlap when thread t enters a
\* get of inj while other threads are inside theirs
Overlap(t, inj) ==
    IF Others(t) = {} THEN {}
    ELSE {Handle(inj)} \cup {Handle(inflight.calls[u].inj) : u \in Others(t)}

\* faulty variant: the resolution does not look the identity up first
BeginGetNoFind(t, s, inj) ==
    /\ phase = "serve"
    /\ scopes[s].state = "live"
    /\ inflight.calls[t].pc = "idle"
    /\ \A u \in Others(t) : inflight.calls[u].scope # s
    /\ m_Services[Handle(inj)] # << >>
    /\ inflight' = [calls |-> [inflight.calls EXCEPT
                                 ![t] = [pc |-> "load", scope |-> s,
                                         inj |-> inj, inst |-> nullptr]],
                    raced |-> inflight.raced \cup Overlap(t, inj)]
    /\ UNCHANGED <<phase, m_Services, m_SingletonStorage, scopes, built, moved,
                   destroyed, last>>

\* thread t enters scope.get<inj>() on scope s: get_service looks the
\* identity up in the singleton store (find); a cached instance is returned
\* at once, otherwise the thread goes on to load
BeginGet(t, s, inj) ==
    /\ phase = "serve"
    /\ scopes[s].state = "live"
    /\ inflight.calls[t].pc = "idle"
    /\ \A u \in Others(t) : inflight.calls[u].scope # s
    /\ m_Services[Handle(inj)] # << >>
    /\ LET found == Find(m_SingletonStorage, Handle(inj))
       IN  inflight' =
             [calls |-> [inflight.calls EXCEPT
                           ![t] = [pc |-> IF found # nullptr THEN "done" ELSE "load",
                                   scope |-> s, inj |-> inj, inst |-> found]],
              raced |-> inflight.raced \cup Overlap(t, inj)]
    /\ UNCHANGED <<phase, m_Services, m_SingletonStorage, scopes, built, moved,
                   destroyed, last>>

\* thread t, having found nothing, builds the instance:
\* make_unique<instance_info>(descriptor, scope)
LoadStep(t) ==
    LET c == inflight.calls[t]
        regs == m_Services[Handle(c.inj)]
        ld == load([stores |-> [provider |-> m_SingletonStorage,
                                local |-> scopes[c.scope].m_LocalStorage],
                    sp |-> scopes[c.scope].m_SingletonStorage,
                    built |-> built, moved |-> moved, g |-> "intact"],
                   Last(regs), <<Handle(c.inj), Len(regs)>>)
    IN  /\ c.pc = "load"
        /\ Len(built) < MaxInst
        /\ built' = ld.st.built
        /\ inflight' = [inflight EXCEPT !.calls[t].pc = "emplace",
                                        !.calls[t].inst = ld.inst]
        /\ UNCHANGED <<phase, m_Services, m_SingletonStorage, scopes, moved,
                       destroyed, last>>

\* thread t appends its instance and aliases it: emplace_back, then
\* m_InstanceRefs.emplace, and the call returns it->second
EmplaceStep(t, o) ==
    LET c == inflight.calls[t]
        h == Handle(c.inj)
        store == StoreEmplace(m_SingletonStorage, h, c.inst)
    IN  /\ c.pc = "emplace"
        /\ (o = "undefined") => (Others(t) # {})
        /\ IF o = "undefined"
           THEN /\ inflight' = [inflight EXCEPT !.calls[t].pc = "undefined"]
                /\ UNCHANGED m_SingletonStorage
           ELSE /\ m_SingletonStorage' = store
                /\ inflight' = [inflight EXCEPT !.calls[t].pc = "done",
                                                !.calls[t].inst = Find(store, h)]
        /\ UNCHANGED <<phase, m_Services, scopes, built, moved, destroyed, last>>

\* the get of thread t has returned to its caller
Return(t) ==
    /\ inflight.calls[t].pc = "done"
    /\ inflight' = [inflight EXCEPT !.calls[t] = Idle]
    /\ UNCHANGED <<phase, m_Services, m_SingletonStorage, scopes, built, moved,
                   destroyed, last>>

\* scope.for_each<InjectableTy>(func)
ForEach(s, inj) ==
    /\ phase = "serve"
    /\ scopes[s].state = "live"
    /\ LET r == ScopeForEach(scopes[s], inj)
       IN  /\ Len(r.st.built) <= MaxInst
           /\ m_SingletonStorage' = r.st.stores.provider
           /\ scopes' = [scopes EXCEPT ![s].m_LocalStorage = r.st.stores.local]
           /\ built' = r.st.built
           /\ moved' = r.st.moved
    /\ UNCHANGED <<inflight, phase, m_Services, destroyed, last>>

\* scope.has<InjectableTy>(): answers from the registry, changes nothing
Has(s, inj) ==
    /\ phase = "serve"
    /\ scopes[s].state = "live"
    /\ ScopeHas(inj) \in BOOLEAN
    /\ UNCHANGED vars

\* count<InjectableTy>() on scope s: const, reads the registry only
Count(s, inj) ==
    /\ phase = "serve"
    /\ scopes[s].state = "live"
    /\ ScopeCount(inj) \in Nat
    /\ UNCHANGED vars

\* count_all<InjectableTy>() on scope s: const, reads the registry only
CountAll(s, inj) ==
    /\ phase = "serve"
    /\ scopes[s].state = "live"
    /\ ScopeCountAll(inj) \in Nat
    /\ UNCHANGED vars

\* the owner tag of the provider's singleton store in the destruction log
SingletonOwner == MaxScopes + 1

\* the destructor runs of one store, in order, tagged with the store's owner
Teardown(store, owner) ==
    LET order == StoreTeardown(store)
    IN  [i \in 1 .. Len(order) |-> [inst |-> order[i], store |-> owner]]

\* faulty variant: the scope's destructor also tears down the singleton
\* store it points to
DestroyScopeAndSingletons(s) ==
    /\ phase = "serve"
    /\ s # RootScope
    /\ scopes[s].state \in {"live", "moved"}
    /\ destroyed' = destroyed \o Teardown(scopes[s].m_LocalStorage, s)
                              \o Teardown(m_SingletonStorage, SingletonOwner)
    /\ scopes' = [scopes EXCEPT ![s].state = "dead",
                                ![s].m_LocalStorage = EmptyStore]
    /\ m_SingletonStorage' = EmptyStore
    /\ UNCHANGED <<inflight, phase, m_Services, built, moved, last>>

\* a scope object goes out of scope: ~service_scope destroys m_LocalStorage
DestroyScope(s) ==
    /\ phase = "serve"
    /\ s # RootScope
    /\ scopes[s].state \in {"live", "moved"}
    /\ destroyed' = destroyed \o Teardown(scopes[s].m_LocalStorage, s)
    /\ scopes' = [scopes EXCEPT ![s].state = "dead",
                                ![s].m_LocalStorage = EmptyStore]
    /\ UNCHANGED <<inflight, phase, m_Services, m_SingletonStorage, built, moved, last>>

\* the provider is destroyed, after every scope made from it (the caller's
\* duty): the root scope goes first, then the singleton store
DestroyProvider ==
    /\ phase = "serve"
    /\ \A s \in ScopeIds \ {RootScope} : scopes[s].state \in {"unused", "dead"}
    /\ phase' = "gone"
    /\ destroyed' = destroyed
                      \o Teardown(scopes[RootScope].m_LocalStorage, RootScope)
                      \o Teardown(m_SingletonStorage, SingletonOwner)
    /\ scopes' = [scopes EXCEPT ![RootScope].state = "dead",
                                ![RootScope].m_LocalStorage = EmptyStore]
    /\ m_SingletonStorage' = EmptyStore
    /\ UNCHANGED <<inflight, m_Services, built, moved, last>>

\* a program that registers (arguments passed as lvalues that outlive the
\* provider), builds the provider, creates scopes, resolves, queries and
\* tears down
Next ==
    \/ \E inj \in Injectables : \E args \in ArgTuples(inj) : Add(inj, args, "lvalue")
    \/ \E inj \in Injectables : \E args \in ArgTuples(inj) : Emplace(inj, args, "lvalue")
    \/ BuildProvider
    \/ CreateScope
    \/ \E s \in ScopeIds : \E inj \in Injectables : Get(s, inj, "intact")
    \/ \E s \in ScopeIds : \E inj \in Injectables : Has(s, inj)
    \/ \E s \in ScopeIds : DestroyScope(s)
    \/ DestroyProvider

Spec == Init /\ [][Next]_vars

\* a program that enumerates: registrations, then get and for_each on the
\* provider and on created scopes
NextEach ==
    \/ \E inj \in Injectables : \E args \in ArgTuples(inj) : Add(inj, args, "lvalue")
    \/ BuildProvider
    \/ CreateScope
    \/ \E s \in ScopeIds : \E inj \in Injectables : Get(s, inj, "intact")
    \/ \E s \in ScopeIds : \E inj \in Injectables : ForEach(s, inj)

SpecEach == Init /\ [][NextEach]_vars

\* a program that queries: registrations, then get, has, count and count_all
\* on the provider and on created scopes
NextQuery ==
    \/ \E inj \in Injectables : \E args \in ArgTuples(inj) : Add(inj, args, "lvalue")
    \/ BuildProvider
    \/ CreateScope
    \/ \E s \in ScopeIds : \E inj \in Injectables : Get(s, inj, "intact")
    \/ \E s \in ScopeIds : \E inj \in Injectables : Has(s, inj)
    \/ \E s \in ScopeIds : \E inj \in Injectables : Count(s, inj)
    \/ \E s \in ScopeIds : \E inj \in Injectables : CountAll(s, inj)

SpecQuery == Init /\ [][NextQuery]_vars

\* the same program when it also moves scopes into upgraded scope objects
NextMove ==
    \/ \E inj \in Injectables : \E args \in ArgTuples(inj) : Add(inj, args, "lvalue")
    \/ BuildProvider
    \/ CreateScope
    \/ \E s \in ScopeIds : UpgradeScope(s)
    \/ \E s \in ScopeIds : \E inj \in Injectables : Get(s, inj, "intact")
    \/ \E s \in ScopeIds : DestroyScope(s)
    \/ DestroyProvider

SpecMove == Init /\ [][NextMove]_vars

\* a program that registers the whole dependency graph, then resolves and
\* enumerates on the provider and on created scopes
NextGraph ==
    \/ \E inj \in GraphServices : \E args \in ArgTuples(inj) : Register(inj, args)
    \/ BuildProvider
    \/ CreateScope
    \/ \E s \in ScopeIds : \E inj \in GraphServices : Get(s, inj, "intact")
    \/ \E s \in ScopeIds : \E inj \in GraphServices : ForEach(s, inj)

SpecGraph == Init /\ [][NextGraph]_vars

\* a program that registers the dependency graph, resolves on the provider
\* and on created scopes, and tears them down
NextTransient ==
    \/ \E inj \in GraphServices : \E args \in ArgTuples(inj) : Register(inj, args)
    \/ BuildProvider
    \/ CreateScope
    \/ \E s \in ScopeIds : \E inj \in GraphServices : Get(s, inj, "intact")
    \/ \E s \in ScopeIds : DestroyScope(s)
    \/ DestroyProvider

SpecTransient == Init /\ [][NextTransient]_vars

\* the services of a program whose scopes cache two scoped instances, the
\* Camera being built over the Engine
UpgradeServices == {"WindowService1", "WindowService2", "EngineService", "CameraService"}

\* a program that registers these services, resolves on the provider and on
\* created scopes, moves scopes into upgraded scope objects and tears
\* everything down
NextUpgrade ==
    \/ \E inj \in UpgradeServices : \E args \in ArgTuples(inj) : Register(inj, args)
    \/ BuildProvider
    \/ CreateScope
    \/ \E s \in ScopeIds : UpgradeScope(s)
    \/ \E s \in ScopeIds : \E inj \in UpgradeServices : Get(s, inj, "intact")
    \/ \E s \in ScopeIds : DestroyScope(s)
    \/ DestroyProvider

SpecUpgrade == Init /\ [][NextUpgrade]_vars

\* the services of a program whose singleton Renderer is declared over the
\* scoped Engine
CaptiveServices == {"WindowService1", "WindowService2", "EngineService", "RendererService"}

\* a program that registers these services, resolves on the provider and on
\* created scopes, and destroys every scope before the provider
NextCaptive ==
    \/ \E inj \in CaptiveServices : \E args \in ArgTuples(inj) : Register(inj, args)
    \/ BuildProvider
    \/ CreateScope
    \/ \E s \in ScopeIds : \E inj \in CaptiveServices : Get(s, inj, "intact")
    \/ \E s \in ScopeIds : DestroyScope(s)
    \/ DestroyProvider

SpecCaptive == Init /\ [][NextCaptive]_vars

\* a program whose threads resolve singletons on scopes of one provider
\* with no lock around get
NextRace ==
    \/ \E inj \in RaceServices : \E args \in ArgTuples(inj) : Register(inj, args)
    \/ BuildProvider
    \/ CreateScope
    \/ \E t \in Threads : \E s \in ScopeIds : \E inj \in RaceServices : BeginGet(t, s, inj)
    \/ \E t \in Threads : LoadStep(t)
    \/ \E t \in Threads : \E o \in RaceOutcome : EmplaceStep(t, o)
    \/ \E t \in Threads : Return(t)

SpecRace == Init /\ [][NextRace]_vars

\* registration with every way of passing the constructor arguments; the
\* root scope and one created scope are used, never moved or destroyed
NextArgs ==
    \/ \E inj \in Injectables : \E args \in ArgTuples(inj) :
          \E pass \in PassModes(inj) : Add(inj, args, pass)
    \/ BuildProvider
    \/ CreateScope /\ \A s \in ScopeIds \ {RootScope} : scopes[s].state = "unused"
    \/ \E s \in ScopeIds : \E inj \in Injectables : \E g \in Dangling : Get(s, inj, g)

SpecArgs == Init /\ [][NextArgs]_vars

\* -------------------------------------------------------------- properties

LiveScopes == {s \in ScopeIds : scopes[s].state = "live"}

LocalStore(s) == scopes[s].m_LocalStorage

\* the instances a store owns
Owned(store) == Range(store.m_Instances)

\* every entry of the store before the call is the same entry after it
RefsKept(before, after) ==
    \A h \in Handles :
        Find(before, h) # nullptr => Find(after, h) = Find(before, h)

\* the injectables of one lifetime
OfLifetime(l) == {inj \in Injectables : Decl[inj].lifetime = l}

\* the instances built so far for a descriptor type
InstancesOf(inj) ==
    {i \in 1 .. Len(built) : built[i].desc.dtype = DescType(inj)}

\* C1: a singleton is constructed at most once per provider and every
\* resolution, from the root scope, from any created scope, or as a
\* dependency of another service, returns that same instance: a successful
\* get of a singleton returns the entry of the provider's store, an entry
\* already there is the one returned and is never replaced, the scope's own
\* store never holds it, and every dependent built so far was handed the
\* entry the provider's store holds now.
C1_SingletonSharing ==
    /\ \A s \in LiveScopes : \A inj \in OfLifetime("singleton") :
          LET r == ScopeGet(scopes[s], inj, "intact")
              h == Handle(inj)
          IN  r.ok =>
                /\ r.inst # nullptr
                /\ r.inst = Find(r.st.stores.provider, h)
                /\ Find(m_SingletonStorage, h) # nullptr =>
                      /\ r.inst = Find(m_SingletonStorage, h)
                      /\ r.st.built = built
                /\ RefsKept(m_SingletonStorage, r.st.stores.provider)
                /\ r.inst \notin Owned(r.st.stores.local)
    /\ \A s \in ScopeIds : \A i \in Owned(LocalStore(s)) :
          built[i].desc.dtype.lifetime # "singleton"
    /\ \A i \in Owned(m_SingletonStorage) :
          /\ built[i].desc.dtype.lifetime = "singleton"
          /\ Find(m_SingletonStorage, built[i].slot[1]) = i
    /\ phase = "serve" =>
          \A i \in 1 .. Len(built) : \A k \in 1 .. Len(built[i].desc.dtype.deps) :
              LET dep == built[i].desc.dtype.deps[k]
              IN  Decl[dep].lifetime = "singleton" =>
                    built[i].params[k].v = Find(m_SingletonStorage, Handle(dep))

\* the root scope and a created scope each built an EngineService, and both
\* were handed the provider's one WindowService1
C1_Witness ==
    /\ Find(LocalStore(RootScope), Handle("EngineService")) # nullptr
    /\ \E s \in LiveScopes \ {RootScope} :
          /\ Find(LocalStore(s), Handle("EngineService")) # nullptr
          /\ built[Find(LocalStore(s), Handle("EngineService"))].params[1].v
               = Find(m_SingletonStorage, Handle("WindowService1"))
          /\ built[Find(LocalStore(RootScope), Handle("EngineService"))].params[1].v
               = Find(m_SingletonStorage, Handle("WindowService1"))

\* the instances destroyed so far
Destroyed == {destroyed[i].inst : i \in 1 .. Len(destroyed)}

\* C2: for a scoped identity, (a) repeated gets on one scope, the root scope
\* included, return the same instance: a successful get returns the entry of
\* that scope's own store, an entry already there is returned without
\* building anything and is never replaced; (b) gets on different scopes of
\* one provider never return the same instance: the instance returned is
\* owned by no other scope's store, nor by the provider's store, and no
\* instance is owned by two stores.
C2_ScopedIsolation ==
    /\ \A s \in LiveScopes : \A inj \in OfLifetime("scoped") :
          LET r == ScopeGet(scopes[s], inj, "intact")
              h == Handle(inj)
          IN  r.ok =>
                /\ r.inst # nullptr
                /\ r.inst = Find(r.st.stores.local, h)
                /\ Find(LocalStore(s), h) # nullptr =>
                      /\ r.inst = Find(LocalStore(s), h)
                      /\ r.st.built = built
                /\ RefsKept(LocalStore(s), r.st.stores.local)
                /\ r.inst \notin Owned(r.st.stores.provider)
                /\ r.inst \notin Destroyed
                /\ \A t \in ScopeIds \ {s} : r.inst \notin Owned(LocalStore(t))
    /\ \A s, t \in ScopeIds :
          s # t => Owned(LocalStore(s)) \cap Owned(LocalStore(t)) = {}
    /\ \A s \in ScopeIds :
          /\ Owned(LocalStore(s)) \cap Owned(m_SingletonStorage) = {}
          /\ \A i \in Owned(LocalStore(s)) :
                /\ built[i].desc.dtype.lifetime = "scoped"
                /\ Find(LocalStore(s), built[i].slot[1]) = i

\* two sibling scopes created from the provider each hold an EngineService
\* of their own
C2_Witness ==
    \E s, t \in LiveScopes \ {RootScope} :
        /\ s # t
        /\ Find(LocalStore(s), Handle("EngineService")) # nullptr
        /\ Find(LocalStore(t), Handle("EngineService")) # nullptr
        /\ Find(LocalStore(s), Handle("EngineService"))
             # Find(LocalStore(t), Handle("EngineService"))

\* C3: for a transient identity every successful get builds anew: the
\* instance returned did not exist before the call, is of the requested
\* type, is kept by no store, and the next get, on the same scope or on any
\* other, returns yet another instance.
C3_TransientFreshness ==
    \A s \in LiveScopes : \A inj \in OfLifetime("transient") :
        LET r == ScopeGet(scopes[s], inj, "intact")
        IN  r.ok =>
              /\ r.inst \notin 1 .. Len(built)
              /\ r.inst \in 1 .. Len(r.st.built)
              /\ r.st.built[r.inst].desc.dtype = DescType(inj)
              /\ r.inst \notin Owned(r.st.stores.provider)
              /\ r.inst \notin Owned(r.st.stores.local)
              /\ \A t \in LiveScopes :
                    LET local == IF t = s THEN r.st.stores.local ELSE LocalStore(t)
                        r2 == get_service([r.st EXCEPT !.stores.local = local], inj)
                    IN  r2.ok /\ r2.inst # r.inst

\* two instances of the transient service have been built by two gets, and
\* no store keeps either
C3_Witness ==
    \E i, j \in InstancesOf("service") :
        /\ i < j
        /\ \A s \in ScopeIds : {i, j} \cap Owned(LocalStore(s)) = {}
        /\ {i, j} \cap Owned(m_SingletonStorage) = {}

\* the injectables a declaration depends on, at any depth
RECURSIVE DependsOn(_)
DependsOn(inj) ==
    LET direct == Range(Decl[inj].deps)
    IN  direct \cup UNION {DependsOn(dep) : dep \in direct}

\* the registration get uses for the injectable is of its descriptor type
RegisteredAs(inj) ==
    /\ m_Services[Handle(inj)] # << >>
    /\ Last(m_Services[Handle(inj)]).dtype = DescType(inj)

\* C4: when S is registered and some identity S depends on, directly or at
\* any depth, has no registered descriptor, get<S> fails, and after the call
\* neither the provider's singleton store nor the scope's local store holds
\* an instance for S, and none was built.
C4_MissingDependencyFailure ==
    \A s \in LiveScopes : \A inj \in Injectables :
        (/\ RegisteredAs(inj)
         /\ \E dep \in DependsOn(inj) : m_Services[Handle(dep)] = << >>)
        => LET r == ScopeGet(scopes[s], inj, "intact")
               h == Handle(inj)
           IN  /\ ~r.ok
               /\ r.inst = nullptr
               /\ Find(r.st.stores.provider, h) = nullptr
               /\ Find(r.st.stores.local, h) = nullptr
               /\ \A i \in 1 .. Len(r.st.built) : r.st.built[i].slot[1] # h

\* TaskService and EngineService are registered, WindowService2 is not; a
\* get has failed at depth, leaving the WindowService1 it resolved first
C4_Witness ==
    /\ phase = "serve"
    /\ RegisteredAs("TaskService")
    /\ RegisteredAs("EngineService")
    /\ m_Services[Handle("WindowService2")] = << >>
    /\ Find(m_SingletonStorage, Handle("WindowService1")) # nullptr
    /\ Find(LocalStore(RootScope), Handle("EngineService")) = nullptr

\* C5: for an identity with no descriptor in the registry has is false, get
\* fails, and get constructs nothing: no instance is built or cached.
C5_UnregisteredIdentity ==
    \A s \in LiveScopes : \A inj \in Injectables :
        m_Services[Handle(inj)] = << >>
        => LET r == ScopeGet(scopes[s], inj, "intact")
           IN  /\ ~ScopeHas(inj)
               /\ ~CollectionHas(m_Services, inj)
               /\ ~r.ok
               /\ r.inst = nullptr
               /\ r.st.built = built
               /\ r.st.stores.provider = m_SingletonStorage
               /\ r.st.stores.local = LocalStore(s)

\* a provider built from a collection that holds the unkeyed Window only:
\* the keyed Window has no descriptor
C5_Witness ==
    /\ phase = "serve"
    /\ RootScope \in LiveScopes
    /\ RegisteredAs("WindowService1")
    /\ m_Services[Handle("WindowService2")] = << >>
    /\ m_Services[Handle("service")] = << >>

\* C6: when a descriptor of type A is registered and get asks for another
\* descriptor type B that is not what its identity is registered as, the get
\* fails and constructs nothing although has for A is true; and whatever a
\* successful get returns was built from a registration of the requested
\* descriptor type, under the requested identity.
C6_DescriptorTypeMismatch ==
    \A s \in LiveScopes : \A B \in Injectables :
        LET r == ScopeGet(scopes[s], B, "intact")
        IN  /\ \A A \in Injectables :
                  (/\ RegisteredAs(A)
                   /\ DescType(A) # DescType(B)
                   /\ ~RegisteredAs(B))
                  => /\ ScopeHas(A)
                     /\ ~r.ok
                     /\ r.inst = nullptr
                     /\ r.st.built = built
                     /\ r.st.stores.provider = m_SingletonStorage
                     /\ r.st.stores.local = LocalStore(s)
            /\ r.ok =>
                  /\ r.st.built[r.inst].desc.dtype = DescType(B)
                  /\ r.st.built[r.inst].slot[1] = Handle(B)

\* the singleton Class is registered and cached: a get of the transient
\* Class meets a registration of another descriptor type under its own
\* identity, a get of the Task meets none under another identity
C6_Witness ==
    /\ phase = "serve"
    /\ RootScope \in LiveScopes
    /\ RegisteredAs("actual_descriptor")
    /\ ScopeHas("actual_descriptor")
    /\ ~RegisteredAs("service")
    /\ ~RegisteredAs("TaskService")
    /\ Find(m_SingletonStorage, Handle("actual_descriptor")) # nullptr

\* every store of the program
Stores == {m_SingletonStorage} \cup {LocalStore(s) : s \in ScopeIds}

\* C7: one value type under two keys is two independent identities: in every
\* store the entries of the two keys are distinct instances, the entry of a
\* key was built from the registration under that key, a get with key a
\* returns the entry of key a and never the one of another key, and a
\* service depending on both keys was handed two different instances.
C7_KeyedDisambiguation ==
    /\ \A store \in Stores : \A a, b \in Handles :
          (a # b /\ Find(store, a) # nullptr) => Find(store, a) # Find(store, b)
    /\ \A store \in Stores : \A a \in Handles :
          Find(store, a) # nullptr => built[Find(store, a)].slot[1] = a
    /\ \A s \in LiveScopes : \A inj \in Injectables :
          LET r == ScopeGet(scopes[s], inj, "intact")
          IN  r.ok =>
                /\ r.st.built[r.inst].slot[1] = Handle(inj)
                /\ \A b \in Handles \ {Handle(inj)} :
                      /\ r.inst # Find(r.st.stores.provider, b)
                      /\ r.inst # Find(r.st.stores.local, b)
    /\ \A i \in InstancesOf("EngineService") :
          /\ built[i].params[1].v # built[i].params[2].v
          /\ built[built[i].params[1].v].slot[1] = Handle("WindowService1")
          /\ built[built[i].params[2].v].slot[1] = Handle("WindowService2")

\* both keyed Windows are cached in the provider's store and an
\* EngineService has been built from the two
C7_Witness ==
    /\ Find(m_SingletonStorage, Handle("WindowService1")) # nullptr
    /\ Find(m_SingletonStorage, Handle("WindowService2")) # nullptr
    /\ InstancesOf("EngineService") # {}

\* C8: emplace on the collection inserts only when the identity has no
\* descriptor and returns whether it inserted: on an identity that has one,
\* whether from emplace or from add, it returns false and leaves the
\* registry as it was; the descriptor an identity's only registration holds
\* is the one get builds from.
C8_EmplaceIdempotence ==
    /\ \A inj \in Injectables : \A args \in ArgTuples(inj) :
          LET d == Descriptor(inj, args, "lvalue")
              h == Handle(inj)
              r == CollectionEmplace(m_Services, d, Decl[inj].key)
          IN  /\ r.inserted = (m_Services[h] = << >>)
              /\ r.inserted => r.services = [m_Services EXCEPT ![h] = <<d>>]
              /\ ~r.inserted => r.services = m_Services
    /\ last.op = "emplace" =>
          /\ m_Services[last.handle] # << >>
          /\ last.ok => m_Services[last.handle] = <<last.desc>>
    /\ \A i \in 1 .. Len(built) :
          Len(m_Services[built[i].slot[1]]) = 1 =>
              built[i].desc = m_Services[built[i].slot[1]][1]
    /\ \A s \in LiveScopes : \A inj \in Injectables :
          LET r == ScopeGet(scopes[s], inj, "intact")
          IN  (r.ok /\ Len(m_Services[Handle(inj)]) = 1) =>
                r.st.built[r.inst].desc = m_Services[Handle(inj)][1]

\* an emplace for an identity that already holds another descriptor has
\* just returned false, and the first descriptor is still the only one
C8_Witness ==
    /\ last.op = "emplace"
    /\ ~last.ok
    /\ Len(m_Services[last.handle]) = 1
    /\ m_Services[last.handle][1] # last.desc
    /\ m_Services[last.handle][1].dtype = last.desc.dtype

\* the positions of the destruction log that belong to one store
LogOf(owner) == {i \in 1 .. Len(destroyed) : destroyed[i].store = owner}

\* C9: a store destroys the instances it owns in exactly the reverse of the
\* order in which they were appended: every store holds its instances in
\* the order they were built, the destructions of one store happen in one
\* run and in descending order of building, each instance once, and when a
\* store is gone every instance that was cached in it has been destroyed.
C9_TeardownOrder ==
    /\ \A store \in Stores : \A i, j \in 1 .. Len(store.m_Instances) :
          i < j => store.m_Instances[i] < store.m_Instances[j]
    /\ \A i, j \in 1 .. Len(destroyed) :
          (i < j /\ destroyed[i].store = destroyed[j].store) =>
              /\ destroyed[i].inst > destroyed[j].inst
              /\ \A k \in i .. j : destroyed[k].store = destroyed[i].store
    /\ \A i, j \in 1 .. Len(destroyed) :
          i # j => destroyed[i].inst # destroyed[j].inst
    /\ \A store \in Stores : Owned(store) \cap Destroyed = {}
    /\ \A i \in 1 .. Len(built) :
          built[i].desc.dtype.lifetime # "transient" =>
              i \in Destroyed \cup UNION {Owned(store) : store \in Stores}
    /\ \A i \in Destroyed : built[i].desc.dtype.lifetime # "transient"
    /\ phase = "gone" =>
          /\ \A store \in Stores : store = EmptyStore
          /\ \A i \in LogOf(SingletonOwner) :
                built[destroyed[i].inst].desc.dtype.lifetime = "singleton"

\* the provider's store held three singletons built in the order I1, I2, I3
\* and has destroyed them in the order I3, I2, I1
C9_Witness ==
    /\ phase = "gone"
    /\ \E i \in 1 .. Len(destroyed) - 2 :
          /\ \A k \in i .. i + 2 : destroyed[k].store = SingletonOwner
          /\ destroyed[i].inst > destroyed[i + 1].inst
          /\ destroyed[i + 1].inst > destroyed[i + 2].inst

\* C10: every instance is constructed with the resolved dependencies first,
\* in declared order, followed by the descriptor's own constructor
\* arguments in their given order; with an empty dependency list the
\* constructor receives exactly the descriptor's own arguments.
C10_DependencyArgumentOrdering ==
    \A i \in 1 .. Len(built) :
        LET b == built[i]
            deps == b.desc.dtype.deps
            args == b.desc.args
        IN  /\ Len(b.params) = Len(deps) + Len(args)
            /\ \A k \in 1 .. Len(deps) :
                  /\ b.params[k].kind = "dep"
                  /\ b.params[k].pos = k
                  /\ b.params[k].v \in 1 .. (i - 1)
                  /\ built[b.params[k].v].desc.dtype = DescType(deps[k])
                  /\ built[b.params[k].v].slot[1] = Handle(deps[k])
            /\ \A j \in 1 .. Len(args) :
                  /\ b.params[Len(deps) + j].kind = "arg"
                  /\ b.params[Len(deps) + j].pos = j
                  /\ b.desc.pass = "lvalue" =>
                        b.params[Len(deps) + j].v = args[j]

\* an EngineService has been built from WindowService1, WindowService2 and
\* its own argument, in that order
C10_Witness ==
    \E i \in InstancesOf("EngineService") :
        /\ Len(built[i].params) = 3
        /\ built[i].desc.pass = "lvalue"
        /\ built[built[i].params[1].v].slot[1] = Handle("WindowService1")
        /\ built[built[i].params[2].v].slot[1] = Handle("WindowService2")
        /\ built[i].params[3] = [kind |-> "arg", pos |-> 1, v |-> built[i].desc.args[1]]

\* scope.get on the scope s in the state the call with result r left behind
\* (r was a call on another scope)
ScopeGetAfter(r, s, inj) ==
    get_service([stores |-> [provider |-> r.st.stores.provider,
                             local |-> LocalStore(s)],
                 sp |-> scopes[s].m_SingletonStorage,
                 built |-> r.st.built, moved |-> r.st.moved,
                 g |-> "intact"],
                inj)

\* C11: with the Windows registered singleton and the Engine scoped and
\* depending on them, get<Engine> on the provider and get<Engine> on a
\* created scope return two distinct Engines, both built with the identical
\* Window, which is also what get<Window> returns on any scope: checked on
\* the two calls made one after the other from every state, and on every
\* state in which both Engines exist.
C11_EndToEndSharing ==
    \A s \in LiveScopes \ {RootScope} :
        LET hE == Handle("EngineService")
            r1 == ScopeGet(scopes[RootScope], "EngineService", "intact")
            r2 == ScopeGetAfter(r1, s, "EngineService")
            e1 == Find(LocalStore(RootScope), hE)
            e2 == Find(LocalStore(s), hE)
        IN  /\ (RootScope \in LiveScopes /\ r1.ok) =>
                  /\ r2.ok
                  /\ r1.inst # r2.inst
                  /\ r2.st.built[r1.inst].params[1].v = r2.st.built[r2.inst].params[1].v
                  /\ r2.st.built[r1.inst].params[2].v = r2.st.built[r2.inst].params[2].v
                  /\ \A t \in LiveScopes :
                        LET w == ScopeGetAfter(r2, t, "WindowService1")
                        IN  w.ok /\ w.inst = r2.st.built[r2.inst].params[1].v
            /\ (e1 # nullptr /\ e2 # nullptr) =>
                  /\ e1 # e2
                  /\ built[e1].params[1].v = built[e2].params[1].v
                  /\ built[e1].params[2].v = built[e2].params[2].v
                  /\ \A t \in LiveScopes :
                        LET w == ScopeGet(scopes[t], "WindowService1", "intact")
                        IN  /\ w.ok
                            /\ w.inst = built[e1].params[1].v
                            /\ w.st.built = built

\* the provider and a created scope hold two distinct Engines built with
\* the same two Windows
C11_Witness ==
    \E s \in LiveScopes \ {RootScope} :
        LET e1 == Find(LocalStore(RootScope), Handle("EngineService"))
            e2 == Find(LocalStore(s), Handle("EngineService"))
        IN  /\ e1 # nullptr
            /\ e2 # nullptr
            /\ e1 # e2
            /\ built[e1].params[1].v = built[e2].params[1].v
            /\ built[e1].params[2].v = built[e2].params[2].v
            /\ built[e1].params[1].v # built[e1].params[2].v

\* a store owns at most one instance per identity, and it is the aliased one
OncePerIdentity(store, instances) ==
    /\ \A i, j \in 1 .. Len(store.m_Instances) :
          i # j => instances[store.m_Instances[i]].slot[1]
                     # instances[store.m_Instances[j]].slot[1]
    /\ \A i \in Owned(store) : store.m_InstanceRefs[instances[i].slot[1]] = i

\* the instances a call built: those of `after` that `built` has not
NewlyBuilt(after) == (Len(built) + 1) .. Len(after)

\* C12: for every singleton or scoped identity the build function runs at
\* most once per store, whatever gets and for_each calls are made and
\* however often one call reaches the identity as a dependency: every store
\* owns at most one instance per identity, every instance built for such an
\* identity is owned by exactly one store, a get or for_each that finds the
\* identity cached builds nothing and returns the cached instance, and no
\* call builds two instances of one such identity.
C12_SingleConstruction ==
    /\ \A store \in Stores : OncePerIdentity(store, built)
    /\ \A i \in 1 .. Len(built) :
          built[i].desc.dtype.lifetime # "transient" =>
              Cardinality({s \in ScopeIds : i \in Owned(LocalStore(s))})
                + (IF i \in Owned(m_SingletonStorage) THEN 1 ELSE 0) = 1
    /\ \A s \in LiveScopes : \A inj \in Injectables :
          LET r == ScopeGet(scopes[s], inj, "intact")
              fe == ScopeForEach(scopes[s], inj)
              store == IF Decl[inj].lifetime = "singleton"
                       THEN m_SingletonStorage ELSE LocalStore(s)
              cached == store.m_InstanceRefs[Handle(inj)]
          IN  /\ OncePerIdentity(r.st.stores.provider, r.st.built)
              /\ OncePerIdentity(r.st.stores.local, r.st.built)
              /\ OncePerIdentity(fe.st.stores.provider, fe.st.built)
              /\ OncePerIdentity(fe.st.stores.local, fe.st.built)
              /\ \A i, j \in NewlyBuilt(r.st.built) :
                    (i # j /\ r.st.built[i].desc.dtype.lifetime # "transient")
                        => r.st.built[i].slot[1] # r.st.built[j].slot[1]
              /\ \A i, j \in NewlyBuilt(fe.st.built) :
                    (i # j /\ fe.st.built[i].desc.dtype.lifetime # "transient")
                        => fe.st.built[i].slot[1] # fe.st.built[j].slot[1]
              /\ (Decl[inj].lifetime # "transient" /\ cached # nullptr) =>
                    /\ r.ok /\ r.inst = cached /\ r.st.built = built
                    /\ fe.st.built = built
                    /\ \A k \in 1 .. Len(fe.visits) : fe.visits[k].inst = cached

\* a TaskService has been built over a diamond: its Engine and the Task
\* itself were handed the same WindowService1, the only one ever built,
\* although its identity is registered twice
C12_Witness ==
    /\ Len(m_Services[Handle("WindowService1")]) = 2
    /\ \E t \in InstancesOf("TaskService") :
          /\ built[built[t].params[1].v].params[1].v = built[t].params[2].v
          /\ Cardinality({i \in 1 .. Len(built) :
                             built[i].slot[1] = Handle("WindowService1")}) = 1

\* the injectables resolved under the identity an instance was built for
InjectablesOf(i) ==
    {inj \in Injectables : /\ Handle(inj) = built[i].slot[1]
                           /\ DescType(inj) = built[i].desc.dtype}

\* while the provider lives every singleton ever built is still owned by
\* the provider's store, not destroyed, and returned by get on every scope
SingletonsKept ==
    phase = "serve" =>
        \A i \in 1 .. Len(built) :
            built[i].desc.dtype.lifetime = "singleton" =>
                /\ i \in Owned(m_SingletonStorage)
                /\ i \notin Destroyed
                /\ \A t \in LiveScopes : \A inj \in InjectablesOf(i) :
                      LET r == ScopeGet(scopes[t], inj, "intact")
                      IN  RegisteredAs(inj) => (r.ok /\ r.inst = i)

\* a step that destroys the scope s destroys the instances of its local
\* store, all of them and in one run, and changes nothing else
DropFrame(s) ==
    (scopes[s].state # "dead" /\ scopes'[s].state = "dead") =>
        /\ Len(destroyed') = Len(destroyed) + Len(LocalStore(s).m_Instances)
        /\ SubSeq(destroyed', 1, Len(destroyed)) = destroyed
        /\ {destroyed'[k].inst : k \in (Len(destroyed) + 1) .. Len(destroyed')}
             = Owned(LocalStore(s))
        /\ \A k \in (Len(destroyed) + 1) .. Len(destroyed') :
              /\ destroyed'[k].store = s
              /\ built[destroyed'[k].inst].desc.dtype.lifetime = "scoped"
        /\ m_SingletonStorage' = m_SingletonStorage
        /\ m_Services' = m_Services
        /\ built' = built
        /\ phase' = phase
        /\ \A t \in ScopeIds \ {s} : scopes'[t] = scopes[t]

\* C13: destroying a scope destroys exactly the instances its local store
\* owns and nothing else: the singleton store, the registry and the local
\* stores of all other scopes are unchanged by the step, and every
\* singleton, whichever scope it was first created through, stays owned by
\* the provider's store and is what later gets on the other scopes return.
C13_ScopeDropFrame ==
    /\ []SingletonsKept
    /\ [][\A s \in ScopeIds \ {RootScope} : DropFrame(s)]_vars

\* a created scope built the two Windows and its Engine and was destroyed:
\* its Engine is the only instance destroyed, and the provider, asked
\* afterwards, built its own Engine from the same two Windows
C13_Witness ==
    \E s \in ScopeIds \ {RootScope} :
        LET e == Find(LocalStore(RootScope), Handle("EngineService"))
        IN  /\ scopes[s].state = "dead"
            /\ Len(destroyed) = 1
            /\ destroyed[1].store = s
            /\ built[destroyed[1].inst].desc.dtype = DescType("EngineService")
            /\ e # nullptr
            /\ destroyed[1].inst < e
            /\ built[e].params[1].v = built[destroyed[1].inst].params[1].v
            /\ built[e].params[1].v \in Owned(m_SingletonStorage)

\* every registration under the injectable's identity is of its type
AllRegisteredAs(inj) ==
    \A k \in 1 .. Len(m_Services[Handle(inj)]) :
        m_Services[Handle(inj)][k].dtype = DescType(inj)

\* C14: with several descriptors added under one identity, for_each visits
\* once per registration, in registration order, and every visit follows
\* the lifetime rule of get: a transient visit is an instance freshly built
\* from that registration, a singleton visit is the entry of the provider's
\* store, a scoped visit the entry of the scope's local store; add puts a
\* descriptor behind the ones its identity already has.
C14_EnumerationOrder ==
    /\ \A s \in LiveScopes : \A inj \in Injectables :
          LET fe == ScopeForEach(scopes[s], inj)
              h == Handle(inj)
              regs == m_Services[h]
          IN  (AllRegisteredAs(inj) /\ fe.ok) =>
                /\ Len(fe.visits) = Len(regs)
                /\ \A k \in 1 .. Len(regs) :
                      LET v == fe.visits[k]
                      IN  /\ v.reg = k
                          /\ v.inst # nullptr
                          /\ Decl[inj].lifetime = "transient" =>
                                /\ v.inst \in NewlyBuilt(fe.st.built)
                                /\ fe.st.built[v.inst].desc = regs[k]
                                /\ fe.st.built[v.inst].slot = <<h, k>>
                                /\ v.inst \notin Owned(fe.st.stores.provider)
                                /\ v.inst \notin Owned(fe.st.stores.local)
                                /\ \A j \in 1 .. (k - 1) : fe.visits[j].inst < v.inst
                          /\ Decl[inj].lifetime = "singleton" =>
                                /\ v.inst = fe.st.stores.provider.m_InstanceRefs[h]
                                /\ v.inst \in Owned(fe.st.stores.provider)
                                /\ v.inst \notin Owned(fe.st.stores.local)
                          /\ Decl[inj].lifetime = "scoped" =>
                                /\ v.inst = fe.st.stores.local.m_InstanceRefs[h]
                                /\ v.inst \in Owned(fe.st.stores.local)
                                /\ v.inst \notin Owned(fe.st.stores.provider)
    /\ last.op = "add" => Last(m_Services[last.handle]) = last.desc

\* for_each has visited the two registrations of the transient Class and
\* built the instance of the first just before the instance of the second
C14_Witness ==
    \E i, j \in InstancesOf("service") :
        /\ Len(m_Services[Handle("service")]) = 2
        /\ built[i].slot = <<Handle("service"), 1>>
        /\ built[j].slot = <<Handle("service"), 2>>
        /\ j = i + 1

\* the instances built for an identity
BuiltFor(h) == {i \in 1 .. Len(built) : built[i].slot[1] = h}

\* C15: the first resolution of a singleton (find, then load, then emplace)
\* is not atomic. As long as the resolutions of an identity never overlap,
\* at most one instance of it is ever built and the store owns one per
\* identity; more than one instance of an identity exists only where its
\* resolution by one thread overlapped a resolution by another thread.
\* A call that returns, returns the entry the store aliases.
C15_UnsynchronizedSingletonStore ==
    /\ \A h \in Handles :
          Cardinality(BuiltFor(h)) > 1 => h \in inflight.raced
    /\ inflight.raced = {} => OncePerIdentity(m_SingletonStorage, built)
    /\ \A t \in Threads :
          LET c == inflight.calls[t]
          IN  /\ c.pc = "done" =>
                    /\ c.inst # nullptr
                    /\ c.inst = m_SingletonStorage.m_InstanceRefs[Handle(c.inj)]
              /\ c.pc = "emplace" =>
                    /\ c.inst \in BuiltFor(Handle(c.inj))
                    /\ c.inst \notin Owned(m_SingletonStorage)
              /\ c.pc = "undefined" => Cardinality(BuiltFor(Handle(c.inj))) >= 1

\* two threads on two scopes have both found WindowService1 absent and each
\* has constructed an instance of it
C15_Witness ==
    /\ inflight.calls[1].pc = "emplace"
    /\ inflight.calls[2].pc = "emplace"
    /\ inflight.calls[1].inj = "WindowService1"
    /\ inflight.calls[2].inj = "WindowService1"
    /\ inflight.calls[1].scope # inflight.calls[2].scope
    /\ inflight.calls[1].inst # inflight.calls[2].inst
    /\ Find(m_SingletonStorage, Handle("WindowService1")) = nullptr

\* C16: when a get fails, at any depth, no instance created during the
\* failed call remains cached: the singleton store and the scope's local
\* store hold after the call exactly what they held before it, dependencies
\* resolved before the missing one included.
C16_NoPartialGraph ==
    \A s \in LiveScopes : \A inj \in Injectables :
        LET r == ScopeGet(scopes[s], inj, "intact")
        IN  ~r.ok =>
              /\ r.st.stores.provider = m_SingletonStorage
              /\ r.st.stores.local = LocalStore(s)
              /\ r.st.built = built

\* the instances built so far with a transient descriptor
Transients == {i \in 1 .. Len(built) : built[i].desc.dtype.lifetime = "transient"}

\* the store gained entries only: what it owned it still owns, in the same
\* order and under the same aliases
StoreExtends(before, after) ==
    /\ Len(before.m_Instances) <= Len(after.m_Instances)
    /\ SubSeq(after.m_Instances, 1, Len(before.m_Instances)) = before.m_Instances
    /\ RefsKept(before, after)

\* the direct dependencies of inj that are cached where a get from scope s
\* looks for them
DepsCached(s, inj) ==
    \A k \in 1 .. Len(Decl[inj].deps) :
        LET dep == Decl[inj].deps[k]
        IN  \/ Decl[dep].lifetime = "singleton"
               /\ Find(m_SingletonStorage, Handle(dep)) # nullptr
            \/ Decl[dep].lifetime = "scoped"
               /\ Find(LocalStore(s), Handle(dep)) # nullptr

\* C17 as stated: a get of a transient identity leaves the singleton store
\* and the scope's local store as they were before the call.
C17_TransientTouchesNoStore ==
    \A s \in LiveScopes : \A inj \in OfLifetime("transient") :
        LET r == ScopeGet(scopes[s], inj, "intact")
        IN  r.ok =>
              /\ r.st.stores.provider = m_SingletonStorage
              /\ r.st.stores.local = LocalStore(s)

\* C17: a get of a transient identity never stores the transient instance:
\* the instance it returns is newly built and owned by neither store, both
\* stores only gain entries, every entry gained is a singleton or scoped
\* instance of a dependency resolved for the first time, and the stores are
\* unchanged when the identity has no dependency or finds them all cached;
\* no transient instance is ever owned by a store or destroyed with the
\* scope or the provider.
C17_TransientFrame ==
    /\ \A s \in LiveScopes : \A inj \in OfLifetime("transient") :
          LET r == ScopeGet(scopes[s], inj, "intact")
              gained == (Owned(r.st.stores.provider) \cup Owned(r.st.stores.local))
                          \ (Owned(m_SingletonStorage) \cup Owned(LocalStore(s)))
          IN  r.ok =>
                /\ r.inst \in NewlyBuilt(r.st.built)
                /\ r.inst \notin Owned(r.st.stores.provider)
                /\ r.inst \notin Owned(r.st.stores.local)
                /\ StoreExtends(m_SingletonStorage, r.st.stores.provider)
                /\ StoreExtends(LocalStore(s), r.st.stores.local)
                /\ \A i \in gained :
                      /\ i \in NewlyBuilt(r.st.built)
                      /\ r.st.built[i].desc.dtype.lifetime # "transient"
                      /\ \E dep \in DependsOn(inj) :
                            r.st.built[i].slot[1] = Handle(dep)
                /\ DepsCached(s, inj) =>
                      /\ r.st.stores.provider = m_SingletonStorage
                      /\ r.st.stores.local = LocalStore(s)
    /\ \A i \in Transients :
          /\ i \notin Destroyed
          /\ \A store \in Stores : i \notin Owned(store)

\* a Task was built from an Engine and a Window that the stores owned, the
\* provider is gone, the Engine and the Window were destroyed with it and
\* the Task was not
C17_Witness ==
    /\ phase = "gone"
    /\ \E t \in Transients :
          /\ built[t].desc.dtype = DescType("TaskService")
          /\ built[t].params[1].v \in Destroyed
          /\ built[t].params[2].v \in Destroyed
          /\ t \notin Destroyed

\* the instances handed to instance i of log b as dependencies, by position
DepsOf(b, i) ==
    {p \in Range(b[i].params) : p.kind = "dep"}

\* instance i of log b and everything it was built from
RECURSIVE Subtree(_, _)
Subtree(b, i) ==
    {i} \cup UNION {Subtree(b, p.v) : p \in DepsOf(b, i)}

\* the instances of log b are numbered in the order their constructors ran:
\* every dependency of an instance was constructed before it
DepsFirst(b) ==
    \A i \in 1 .. Len(b) : \A p \in DepsOf(b, i) : p.v < i

IsArg(p) == p.kind = "arg"

ArgsPassed(rec) ==
    LET own == SelectSeq(rec.params, IsArg)
    IN  [j \in 1 .. Len(own) |-> own[j].v]

\* C19: for a descriptor registered with explicit constructor arguments,
\* every invocation of load passes the same constructor argument values as
\* the first invocation did: any two instances built from one registration
\* were constructed with the same argument values.
C19_DescriptorImmutability ==
    \A i, j \in 1 .. Len(built) :
        built[i].slot = built[j].slot =>
            ArgsPassed(built[i]) = ArgsPassed(built[j])

\* the registrations under the identity of inj, and those of its value type
RegsUnder(inj) == m_Services[Handle(inj)]

SameValueType(inj) ==
    {h \in Handles : \E other \in Injectables :
        h = Handle(other) /\ Decl[other].vtype = Decl[inj].vtype}

\* a query on scope s for inj
Query(s, inj) == Has(s, inj) \/ Count(s, inj) \/ CountAll(s, inj)

MovedNow == {s \in ScopeIds : scopes[s].state = "live" /\ scopes'[s].state = "moved"}

UpgradedNow ==
    {t \in ScopeIds : scopes[t].state = "unused" /\ scopes'[t].origin = "upgrade"}

\* the instances the destruction log holds for one owner, in log order
RunOf(owner) ==
    LET F[i \in 0 .. Len(destroyed)] ==
            IF i = 0 THEN << >>
            ELSE IF destroyed[i].store = owner
                 THEN Append(F[i - 1], destroyed[i].inst)
                 ELSE F[i - 1]
    IN  F[Len(destroyed)]

\* C21: constructing a scope from a moved-from scope transfers the whole
\* local store: the step that moves a scope gives the new scope exactly the
\* old scope's store, builds nothing and destroys nothing, and a get on the
\* new scope of every scoped identity that was cached in the old scope
\* returns that same instance without building; a moved-from scope owns no
\* instance, so its destruction destroys nothing; no instance is ever
\* destroyed twice or destroyed while a store owns it; and the destruction
\* of a scope destroys exactly the instances its store holds, the
\* transferred ones included, last created first.
C21_UpgradeKeepsCache ==
    /\ [](\A s \in ScopeIds : scopes[s].state = "moved" => Owned(LocalStore(s)) = {})
    /\ [](\A i, j \in 1 .. Len(destroyed) :
              i # j => destroyed[i].inst # destroyed[j].inst)
    /\ [](\A st \in Stores : Owned(st) \cap Destroyed = {})
    /\ [][\A s \in MovedNow :
            /\ Cardinality(UpgradedNow) = 1
            /\ destroyed' = destroyed
            /\ built' = built
            /\ \A t \in UpgradedNow :
                  /\ scopes'[t].state = "live"
                  /\ scopes'[t].m_LocalStorage = LocalStore(s)
                  /\ \A inj \in {d \in Declared : Decl[d].lifetime = "scoped"} :
                        Find(LocalStore(s), Handle(inj)) # nullptr =>
                            LET r == ScopeGet(scopes'[t], inj, "intact")
                            IN  /\ r.ok
                                /\ r.inst = Find(LocalStore(s), Handle(inj))
                                /\ r.st.built = built]_vars
    /\ [][\A s \in ScopeIds \ {RootScope} :
            scopes[s].state \in {"live", "moved"} /\ scopes'[s].state = "dead" =>
                /\ Len(destroyed') = Len(destroyed) + Len(LocalStore(s).m_Instances)
                /\ SubSeq(destroyed', 1, Len(destroyed)) = destroyed
                /\ RunOf(s)' = Reverse(LocalStore(s).m_Instances)
                /\ \A i \in 1 .. Len(RunOf(s)') - 1 :
                      RunOf(s)'[i] > RunOf(s)'[i + 1]]_vars

\* a scope that cached an EngineService and a CameraService was moved into
\* an upgraded scope and both scope objects are gone: the old one destroyed
\* nothing, the upgraded one destroyed the Camera, then the Engine
C21_Witness ==
    \E s, t \in ScopeIds :
        /\ scopes[s].origin = "created" /\ scopes[s].state = "dead"
        /\ scopes[t].origin = "upgrade" /\ scopes[t].state = "dead"
        /\ RunOf(s) = << >>
        /\ Len(RunOf(t)) = 2
        /\ built[RunOf(t)[1]].desc.dtype.vtype = "Camera"
        /\ built[RunOf(t)[2]].desc.dtype.vtype = "Engine"
        /\ built[RunOf(t)[1]].params[1].v = RunOf(t)[2]

\* the cached instances that were constructed with a reference to instance i
CachedDependents(i) ==
    {j \in 1 .. Len(built) :
        /\ built[j].desc.dtype.lifetime # "transient"
        /\ \E k \in 1 .. Len(built[j].params) :
              /\ built[j].params[k].kind = "dep"
              /\ built[j].params[k].v = i}

\* C22: when every created scope is destroyed before its provider, no
\* instance is destroyed while a cached instance that was constructed with
\* a reference to it is still alive: among the instances one store
\* destroys, a dependent always goes before the instance it was built
\* over, and no singleton the provider's store still holds was built over
\* an instance that has been destroyed since, as a scoped instance is when
\* its scope is dropped.
C22_DependencySafeTeardown ==
    /\ \A p, q \in 1 .. Len(destroyed) :
          /\ destroyed[p].store = destroyed[q].store
          /\ destroyed[q].inst \in CachedDependents(destroyed[p].inst)
          => q < p
    /\ \A i \in Destroyed :
          CachedDependents(i) \cap Owned(m_SingletonStorage) = {}

\* the keys a store's find answers with an instance
Aliased(store) == {h \in Handles : Find(store, h) # nullptr}

\* the store of scope s an injectable of this lifetime is cached in, out
\* of the stores a call left
StoreAfter(r, inj) == r.st.stores[StoreFor(r.st, Decl[inj].lifetime)]

\* C23: in every state of the stores driven by find-before-emplace the
\* owning list and the alias map correspond one to one: every aliased key
\* points to exactly one entry of the owning list, which is alive, every
\* entry of the owning list is the target of exactly one key, the aliased
\* keys are exactly the identities of the entries appended, and a get of
\* a key not yet aliased leaves it aliased exactly when it succeeds. When
\* emplace is called all the same for a key already aliased, it succeeds
\* and returns the earlier instance, every alias stays as it was, and the
\* newly built instance is appended to the owning list.
C23_StoreConsistency ==
    /\ \A store \in Stores :
          /\ \A h \in Aliased(store) :
                /\ Cardinality({p \in DOMAIN store.m_Instances :
                                   store.m_Instances[p] = Find(store, h)}) = 1
                /\ Find(store, h) \notin Destroyed
          /\ \A p \in DOMAIN store.m_Instances :
                Cardinality({h \in Handles :
                                Find(store, h) = store.m_Instances[p]}) = 1
          /\ Aliased(store) = {built[i].slot[1] : i \in Owned(store)}
    /\ \A s \in LiveScopes : \A inj \in GraphServices :
          (Decl[inj].lifetime # "transient" /\ m_Services[Handle(inj)] # << >>) =>
              LET h == Handle(inj)
                  store == IF Decl[inj].lifetime = "singleton"
                           THEN m_SingletonStorage ELSE LocalStore(s)
                  r == ScopeGet(scopes[s], inj, "intact")
                  e == ScopeEmplace(scopes[s], inj)
              IN  IF Find(store, h) = nullptr
                  THEN (Find(StoreAfter(r, inj), h) # nullptr) <=> r.ok
                  ELSE /\ e.ok
                       /\ e.inst = Find(store, h)
                       /\ Len(e.st.built) = Len(built) + 1
                       /\ StoreAfter(e, inj).m_Instances
                            = Append(store.m_Instances, Len(e.st.built))
                       /\ \A k \in Handles :
                             Find(StoreAfter(e, inj), k) = Find(store, k)

\* the provider's store holds the two Windows under their two keys and a
\* created scope's store holds its EngineService, each entry under its own
\* alias, while the Window's identity is registered twice
C23_Witness ==
    /\ Len(m_Services[Handle("WindowService1")]) = 2
    /\ Len(m_SingletonStorage.m_Instances) = 2
    /\ Find(m_SingletonStorage, Handle("WindowService1"))
         = m_SingletonStorage.m_Instances[1]
    /\ Find(m_SingletonStorage, Handle("WindowService2"))
         = m_SingletonStorage.m_Instances[2]
    /\ \E s \in LiveScopes \ {RootScope} :
          /\ Len(LocalStore(s).m_Instances) = 1
          /\ Find(LocalStore(s), Handle("EngineService"))
               = LocalStore(s).m_Instances[1]


====
